---- MODULE Spec2Model ----
(***************************************************************************)
(* AsyncTaskQueue of lab3.js: a FIFO queue that runs submitted async       *)
(* functions one at a time.  add() pushes an entry {task, resolve, reject} *)
(* and starts process() when the queue is idle; process() is an async      *)
(* function whose while loop shifts the head entry, invokes its task and   *)
(* suspends at `await task()` until the task's promise settles.            *)
(*                                                                         *)
(* A submission is identified by its index k in `submitted` (the k-th      *)
(* add() call).  The entry pushed by the k-th add() carries the resolve    *)
(* and reject functions of the promise returned by that call, so an entry  *)
(* is represented by k and calls[k] records the calls made on its handles. *)
(***************************************************************************)
EXTENDS Integers, Sequences, FiniteSets, TLC

\* Largest number of add() calls in one behaviour.
MaxTasks == 3

\* Largest number of add() calls on the second queue instance.
MaxOther == 2

\* Largest maxRetries given to retryOperation.
MaxRetries == 3

\* Longest timeout and longest operation given to withTimeout, in seconds.
MaxSeconds == 3

\* Largest number of faultyOperation calls in one behaviour.
MaxFaultyCalls == 3

\* Number of add() calls made on the two implementations run side by side.
MaxPair == 3

\* Length of the longest list given to processLargeDataset.
MaxItems == 5

Values == {"v1", "v2"}
Errors == {"e1", "e2"}

\* What the value passed to add() does when the queue evaluates `task()`:
\*   async_ok     returns a promise that is later fulfilled with val
\*   async_fail   returns a promise that is later rejected with val
\*   sync_throw   a plain function that throws val when invoked
\*   not_callable not a function: `task()` throws a TypeError
\*   hang         returns a promise that never settles
CompletingInputs ==
    [kind : {"async_ok"}, val : Values] \cup
    [kind : {"async_fail"}, val : Errors] \cup
    [kind : {"sync_throw"}, val : {"e1"}] \cup
    [kind : {"not_callable"}, val : {"TypeError"}]

TaskInputs == CompletingInputs \cup [kind : {"hang"}, val : {"none"}]

\* A task that, when invoked, submits InnerTask to the queue it is running
\* in and returns the result of awaiting the promise add() gave it:
\*   async () => await queue.add(inner)
Reentrant == [kind |-> "reentrant", val |-> "v1"]

InnerTask == [kind |-> "async_ok", val |-> "v1"]

NestedInputs == TaskInputs \cup {Reentrant}

\* One task of each kind that completes: the progress of the queue does not
\* depend on the value or the error a task produces.
LiveInputs ==
    { [kind |-> "async_ok", val |-> "v1"], [kind |-> "async_fail", val |-> "e1"],
      [kind |-> "sync_throw", val |-> "e1"], [kind |-> "not_callable", val |-> "TypeError"] }

\* The tasks given to the queues when two instances are run side by side.
TwoInputs ==
    { [kind |-> "async_ok", val |-> "v1"], [kind |-> "async_fail", val |-> "e1"],
      [kind |-> "not_callable", val |-> "TypeError"], [kind |-> "hang", val |-> "none"] }

VARIABLES
    submitted,  \* the arguments of the add() calls made so far, in call order
    tasks,      \* this.tasks: the pending entries (submission indices)
    isRunning,  \* this.isRunning
    awaiting,   \* entries on which an activation of process() is suspended at `await task()`
    taskState,  \* per submission: "queued", "running", "fulfilled", "rejected", "threw"
    started,    \* the entries whose task was invoked, in invocation order
    calls,      \* per submission: the calls made on its resolve/reject handles, in order
    log,        \* the console.log lines printed by process()
    waitsOn,    \* per submission: the entry whose promise its running task awaits (0: none)
    order,      \* history: task invocations and handle calls, in the order they happen
    addThrew,   \* TRUE once an add() call has thrown synchronously to its caller
    burst,      \* history: the add() calls made back to back since an add() on an idle queue
    startedAtAdd, \* history: per add() call, the number of tasks invoked before the call
    other,      \* a second AsyncTaskQueue instance, as a record of the same fields
    rt,         \* one call of retryOperation (examples.js): its arguments, locals and outcome
    wt,         \* one call of withTimeout (examples.js): its arguments, timers and outcome
    fo,         \* the calls of faultyOperation made by one caller, one after the other
    el,         \* one Node.js process running a script: its event-loop queues and its output
    fc,         \* runExamples (examples.js): the two file chains and the wait between them
    tq          \* an instance of the AsyncTaskQueue copy of tests/test.js

vars == <<submitted, tasks, isRunning, awaiting, taskState, started, calls, log, waitsOn, order,
          addThrew, burst, startedAtAdd, other, rt, wt, fo, el, fc, tq>>

\* What the operations of the first queue instance leave alone.
outside == <<other, rt, wt, fo, el, fc, tq>>

Ids == 1..MaxTasks

OtherIds == 1..MaxOther

\* new AsyncTaskQueue(): empty list, flag clear (and nothing observed yet).
NewQueue(ids) ==
    [submitted |-> <<>>, tasks |-> <<>>, isRunning |-> FALSE, awaiting |-> {},
     taskState |-> [k \in ids |-> "queued"], started |-> <<>>,
     calls |-> [k \in ids |-> <<>>], log |-> <<>>,
     waitsOn |-> [k \in ids |-> 0], order |-> <<>>]

\* new AsyncTaskQueue() of tests/test.js: the same two fields; taskCount is
\* the local of the activation of process() that is past the guard.
NewTestQueue(ids) ==
    [submitted |-> <<>>, tasks |-> <<>>, isRunning |-> FALSE, awaiting |-> {},
     taskState |-> [k \in ids |-> "queued"], started |-> <<>>,
     calls |-> [k \in ids |-> <<>>], log |-> <<>>, order |-> <<>>, taskCount |-> 0]

NoBurst == [n |-> 0, first |-> 0, starts |-> 0]

\* A value or an error: a text, a number and, for the error built by
\* retryOperation, the failure it reports.
Val(text, n) == [text |-> text, n |-> n, cause |-> <<>>]

\* No call of retryOperation.
NoRetry ==
    [maxRetries |-> 0, op |-> [kind |-> "none", plan |-> <<>>], attempt |-> 0,
     opCalls |-> 0, inFlight |-> 0, pc |-> "none",
     result |-> [status |-> "pending", value |-> Val("none", 0)],
     waits |-> <<>>, printed |-> <<>>]

QueueInit ==
    /\ submitted = <<>>
    /\ tasks = <<>>
    /\ isRunning = FALSE
    /\ awaiting = {}
    /\ taskState = [k \in Ids |-> "queued"]
    /\ started = <<>>
    /\ calls = [k \in Ids |-> <<>>]
    /\ log = <<>>
    /\ waitsOn = [k \in Ids |-> 0]
    /\ order = <<>>
    /\ addThrew = FALSE
    /\ burst = NoBurst
    /\ startedAtAdd = <<>>
    /\ other = NewQueue(OtherIds)

\* No call of withTimeout.
NoTimeout ==
    [timeoutMs |-> 0, duration |-> 0, ok |-> TRUE, pc |-> "none",
     opPending |-> FALSE, timerPending |-> FALSE, events |-> <<>>, raceCalls |-> <<>>]

\* An Error object: its identity and its message.  Identity 0 is used for
\* values that are not errors.
Obj(id, text) == [id |-> id, text |-> text]

\* No call of faultyOperation yet.
NoFaulty ==
    [arg |-> "none", pc |-> "idle", errors |-> 0, thrown |-> Obj(0, "none"),
     results |-> <<>>, printed |-> <<>>]

\* No script running.
NoLoop ==
    [prog |-> "none", phase |-> "exit", now |-> 0, run |-> <<>>, ticks |-> <<>>,
     micro |-> <<>>, inMicro |-> FALSE, timers |-> <<>>, imm |-> <<>>, immNow |-> <<>>,
     io |-> <<>>, out |-> <<>>, turn |-> 0, input |-> <<>>, data |-> <<>>, items |-> <<>>,
     called |-> <<>>]

\* A file chain that has not been started.
NoChain ==
    [failAt |-> 0, started |-> <<>>, succeeded |-> 0, inFlight |-> FALSE, failed |-> 0,
     reports |-> 0, completed |-> FALSE]

\* runExamples not called.
NoExamples == [pc |-> "none", hell |-> NoChain, clean |-> NoChain]

\* The part of the state that belongs to the examples, to the event loop
\* and to the test copy of the queue, at rest.
Rest ==
    /\ fc = NoExamples
    /\ tq = NewTestQueue(OtherIds)

Init ==
    /\ QueueInit
    /\ rt = NoRetry
    /\ wt = NoTimeout
    /\ fo = NoFaulty
    /\ el = NoLoop
    /\ Rest

----------------------------------------------------------------------------
\* The pieces of add() and process().

\* Faulty variant: the entry is put at the front (unshift).
Push_unshift(q, e) == <<e>> \o q

\* this.tasks.push(entry)
Push(q, e) == Append(q, e)

\* Faulty variant: the entry is taken from the tail (pop) instead of the head.
Shift_pop(q) == [entry |-> q[Len(q)], rest |-> SubSeq(q, 1, Len(q) - 1)]

\* this.tasks.shift(): the removed head and the remaining list
Shift(q) == [entry |-> Head(q), rest |-> Tail(q)]

\* getCompletedTaskCount(): returns this.tasks.length
GetCompletedTaskCount(q) == Len(q)

\* Faulty variant: add() only pushes and leaves the start to someone else.
ShouldStart_never(running) == FALSE

\* the guard of add(): `if (!this.isRunning)`
ShouldStart(running) == ~running

\* Faulty variant: process() only tests for an empty list.
Guard_noRunningCheck(running, q) == Len(q) = 0

\* Faulty variant: process() does not test for an empty list.
Guard_noEmptyCheck(running, q) == running

\* the guard of process(): `if (this.isRunning || this.tasks.length === 0) return;`
Guard(running, q) == running \/ Len(q) = 0

\* evaluating `task()` throws before any promise is returned
InvokeThrows(t) == t.kind \in {"sync_throw", "not_callable"}

\* Faulty variant: `this.isRunning = true` is missing.
MarkRunning_forgot(running) == running

\* `this.isRunning = true` once process() is past its guard
MarkRunning(running) == TRUE

\* Faulty variant: `resolve()` without the result.
OnResult_noValue(v) == << <<"resolve", "undefined">> >>

\* try-branch after the await: `resolve(result)`
OnResult(v) == << <<"resolve", v>> >>

\* Faulty variant: the catch block also falls through to a resolve().
Catch_alsoResolve(err) ==
    [caught |-> TRUE, calls |-> << <<"reject", err>>, <<"resolve", "undefined">> >>]

\* Faulty variant: the error is replaced by a new one.
Catch_wrapped(err) == [caught |-> TRUE, calls |-> << <<"reject", "TaskFailed">> >>]

\* Faulty variant: `reject(error); throw error;` - the exception leaves process().
Catch_rethrow(err) == [caught |-> FALSE, calls |-> << <<"reject", err>> >>]

\* Faulty variant: no try/catch around the invocation.
Catch_uncaught(err) == [caught |-> FALSE, calls |-> <<>>]

\* catch-branch: `reject(error)`; the exception is consumed and the loop goes on
Catch(err) == [caught |-> TRUE, calls |-> << <<"reject", err>> >>]

\* Faulty variant: the flag is not cleared.
Finish_forgot(running) == running

\* `this.isRunning = false` after the while loop
Finish(running) == FALSE

\* The machine state as one record, so that the synchronous part of
\* process() can be computed as a function of it.
Cur == [submitted |-> submitted, tasks |-> tasks, isRunning |-> isRunning,
        awaiting |-> awaiting, taskState |-> taskState, started |-> started,
        calls |-> calls, log |-> log, waitsOn |-> waitsOn, order |-> order]

Install(s) ==
    /\ submitted' = s.submitted
    /\ tasks' = s.tasks
    /\ isRunning' = s.isRunning
    /\ awaiting' = s.awaiting
    /\ taskState' = s.taskState
    /\ started' = s.started
    /\ calls' = s.calls
    /\ log' = s.log
    /\ waitsOn' = s.waitsOn
    /\ order' = s.order

\* The handle calls cs made for entry e, as events of the history.
Settled(e, cs) == [i \in 1..Len(cs) |-> <<"settle", e>>]

\* The while loop of process(), run from its loop test up to the next
\* suspension at `await task()`, to the end of the function, or to an
\* exception that leaves the function.  Invoking a reentrant task runs the
\* executor of its add() call (push, and process() when the flag is clear)
\* before the task suspends and `task()` returns its promise.
RECURSIVE WhileLoop(_), Process(_)
WhileLoop(s) ==
    IF Len(s.tasks) = 0
    THEN [s EXCEPT !.isRunning = Finish(s.isRunning),
                   !.log = Append(@, <<"all_completed", 0>>)]
    ELSE LET d  == Shift(s.tasks)
             e  == d.entry
             s1 == [s EXCEPT !.tasks = d.rest,
                             !.log = Append(@, <<"processing", GetCompletedTaskCount(d.rest) + 1>>),
                             !.started = Append(@, e),
                             !.order = Append(@, <<"start", e>>)]
         IN  IF InvokeThrows(s.submitted[e])
             THEN LET c  == Catch(s.submitted[e].val)
                      s2 == [s1 EXCEPT !.taskState[e] = "threw",
                                       !.calls[e] = @ \o c.calls,
                                       !.order = @ \o Settled(e, c.calls)]
                  IN  IF c.caught THEN WhileLoop(s2) ELSE s2
             ELSE IF s.submitted[e].kind = "reentrant"
             THEN LET k  == Len(s1.submitted) + 1
                      s2 == [s1 EXCEPT !.submitted = Append(@, InnerTask),
                                       !.tasks = Push(@, k)]
                      s3 == IF ShouldStart(s2.isRunning) THEN Process(s2) ELSE s2
                  IN  [s3 EXCEPT !.taskState[e] = "running",
                                 !.awaiting = @ \cup {e},
                                 !.waitsOn[e] = k]
             ELSE [s1 EXCEPT !.taskState[e] = "running",
                             !.awaiting = @ \cup {e}]

\* process() from its first line up to its first suspension or its end.
Process(s) ==
    IF Guard(s.isRunning, s.tasks)
    THEN s
    ELSE WhileLoop([s EXCEPT !.isRunning = MarkRunning(s.isRunning),
                             !.log = Append(@, <<"starting", 0>>)])

\* Number of times process() got past its guard.
DrainStarts(l) == Cardinality({i \in 1..Len(l) : l[i][1] = "starting"})

\* Number of times process() ran past its while loop and cleared the flag.
DrainEnds(l) == Cardinality({i \in 1..Len(l) : l[i][1] = "all_completed"})

----------------------------------------------------------------------------
\* Operations.

\* Faulty variant: add() validates its argument before creating the promise
\* and throws a TypeError to the caller for a non-function.
Add_validating(t) ==
    /\ Len(submitted) < MaxTasks
    /\ t.kind = "not_callable"
    /\ addThrew' = TRUE
    /\ burst' = NoBurst
    /\ UNCHANGED <<submitted, tasks, isRunning, awaiting, taskState, started, calls, log>>
    /\ UNCHANGED <<waitsOn, order, startedAtAdd, outside>>

\* The submissions that reentrant tasks not yet invoked will still make.
Reserved ==
    Cardinality({i \in 1..Len(tasks) : submitted[tasks[i]].kind = "reentrant"})

\* The behaviour stays within MaxTasks submissions, those made by the
\* submitted tasks included.
HasRoom(t) ==
    Len(submitted) + Reserved + (IF t.kind = "reentrant" THEN 2 ELSE 1) <= MaxTasks

\* queue.add(t): the Promise executor pushes the entry and, when the queue
\* is idle, calls process().  process() is an async function and the call
\* sits inside a Promise executor, so nothing is thrown to the caller.
Add(t) ==
    /\ HasRoom(t)
    /\ LET k  == Len(submitted) + 1
           s1 == [Cur EXCEPT !.submitted = Append(@, t),
                             !.tasks = Push(@, k)]
           s2 == IF ShouldStart(s1.isRunning) THEN Process(s1) ELSE s1
           ds == DrainStarts(s2.log) - DrainStarts(log)
       IN  /\ Install(s2)
           /\ burst' = IF burst.n = 0
                       THEN IF isRunning THEN NoBurst
                            ELSE [n |-> 1, first |-> k, starts |-> ds]
                       ELSE [burst EXCEPT !.n = @ + 1, !.starts = @ + ds]
    /\ startedAtAdd' = Append(startedAtAdd, Len(started))
    /\ UNCHANGED <<addThrew, outside>>

\* A direct call of queue.process().
CallProcess ==
    /\ Install(Process(Cur))
    /\ burst' = NoBurst
    /\ UNCHANGED <<addThrew, startedAtAdd, outside>>

\* The running task k can finish: a reentrant task not before the promise
\* it awaits has had one of its handles called.
CanComplete(k) ==
    \/ submitted[k].kind \in {"async_ok", "async_fail"}
    \/ submitted[k].kind = "reentrant" /\ calls[waitsOn[k]] # <<>>

\* How the promise of the running task k settles.
Completion(k) ==
    IF submitted[k].kind = "reentrant"
    THEN IF calls[waitsOn[k]][1][1] = "resolve" THEN "fulfilled" ELSE "rejected"
    ELSE IF submitted[k].kind = "async_ok" THEN "fulfilled" ELSE "rejected"

\* The promise returned by the running task k settles.
TaskComplete(k) ==
    /\ k \in 1..Len(submitted)
    /\ taskState[k] = "running"
    /\ CanComplete(k)
    /\ taskState' = [taskState EXCEPT ![k] = Completion(k)]
    /\ burst' = NoBurst
    /\ UNCHANGED <<submitted, tasks, isRunning, awaiting, started, calls, log, addThrew>>
    /\ UNCHANGED <<waitsOn, order, startedAtAdd, outside>>

\* The activation of process() suspended on entry k resumes after the
\* await: it notifies the entry's handle and goes round the loop again.
Resume(k) ==
    /\ k \in awaiting
    /\ taskState[k] \in {"fulfilled", "rejected"}
    /\ LET s0 == [Cur EXCEPT !.awaiting = @ \ {k}]
       IN  IF taskState[k] = "fulfilled"
           THEN LET r == OnResult(submitted[k].val)
                IN  Install(WhileLoop([s0 EXCEPT !.calls[k] = @ \o r,
                                                 !.order = @ \o Settled(k, r)]))
           ELSE LET c  == Catch(submitted[k].val)
                    s1 == [s0 EXCEPT !.calls[k] = @ \o c.calls,
                                     !.order = @ \o Settled(k, c.calls)]
                IN  Install(IF c.caught THEN WhileLoop(s1) ELSE s1)
    /\ burst' = NoBurst
    /\ UNCHANGED <<addThrew, startedAtAdd, outside>>

\* The operations of the second instance.  Inside a method `this` is the
\* instance the method was called on: its own tasks array and its own flag.
firstQueue == <<submitted, tasks, isRunning, awaiting, taskState, started, calls, log,
                waitsOn, order, addThrew, burst, startedAtAdd>>

\* What the operations of the second instance, of retryOperation and of
\* withTimeout leave alone.
exceptOther == <<firstQueue, rt, wt, fo, el, fc, tq>>

exceptRetry == <<firstQueue, other, wt, fo, el, fc, tq>>

exceptTimeout == <<firstQueue, other, rt, fo, el, fc, tq>>

exceptFaulty == <<firstQueue, other, rt, wt, el, fc, tq>>

exceptLoop == <<firstQueue, other, rt, wt, fo, fc, tq>>

exceptExamples == <<firstQueue, other, rt, wt, fo, el, tq>>

exceptPair == <<firstQueue, rt, wt, fo, el, fc>>

\* Faulty variant: the flag is shared by all instances.
View_sharedFlag(own, peer) == [own EXCEPT !.isRunning = peer.isRunning]

\* The fields that `this.tasks` and `this.isRunning` refer to in a method
\* called on the instance `own` while the instance `peer` exists.
View(own, peer) == own

AddOther(t) ==
    /\ Len(other.submitted) < MaxOther
    /\ LET k  == Len(other.submitted) + 1
           s0 == View(other, Cur)
           s1 == [s0 EXCEPT !.submitted = Append(@, t),
                            !.tasks = Push(@, k)]
       IN  other' = IF ShouldStart(s1.isRunning) THEN Process(s1) ELSE s1
    /\ UNCHANGED exceptOther

TaskCompleteOther(k) ==
    /\ k \in 1..Len(other.submitted)
    /\ other.taskState[k] = "running"
    /\ other.submitted[k].kind \in {"async_ok", "async_fail"}
    /\ other' = [other EXCEPT !.taskState[k] =
                     IF other.submitted[k].kind = "async_ok" THEN "fulfilled" ELSE "rejected"]
    /\ UNCHANGED exceptOther

ResumeOther(k) ==
    /\ k \in other.awaiting
    /\ other.taskState[k] \in {"fulfilled", "rejected"}
    /\ LET s0 == [View(other, Cur) EXCEPT !.awaiting = @ \ {k}]
       IN  IF other.taskState[k] = "fulfilled"
           THEN LET r == OnResult(other.submitted[k].val)
                IN  other' = WhileLoop([s0 EXCEPT !.calls[k] = @ \o r,
                                                  !.order = @ \o Settled(k, r)])
           ELSE LET c  == Catch(other.submitted[k].val)
                    s1 == [s0 EXCEPT !.calls[k] = @ \o c.calls,
                                     !.order = @ \o Settled(k, c.calls)]
                IN  other' = IF c.caught THEN WhileLoop(s1) ELSE s1
    /\ UNCHANGED exceptOther

Next ==
    \/ \E t \in TaskInputs : Add(t)
    \/ CallProcess
    \/ \E k \in Ids : TaskComplete(k)
    \/ \E k \in Ids : Resume(k)

Spec == Init /\ [][Next]_vars

\* Every started task completes: no submitted task hangs, a running task's
\* promise eventually settles, and the continuation of an await whose
\* promise has settled is always run by the microtask queue.
NextLive ==
    \/ \E t \in LiveInputs : Add(t)
    \/ CallProcess
    \/ \E k \in Ids : TaskComplete(k)
    \/ \E k \in Ids : Resume(k)

\* The queue with tasks that submit to the queue they run in.
NextNested ==
    \/ \E t \in NestedInputs : Add(t)
    \/ CallProcess
    \/ \E k \in Ids : TaskComplete(k)
    \/ \E k \in Ids : Resume(k)

NestedSpec == Init /\ [][NextNested]_vars

LiveSpec ==
    /\ Init
    /\ [][NextLive]_vars
    /\ WF_vars(\E k \in Ids : TaskComplete(k))
    /\ WF_vars(\E k \in Ids : Resume(k))

----------------------------------------------------------------------------
\* retryOperation(operation, maxRetries) of examples.js.

\* The operations tried: unreliableOperation of advancedErrorHandling, and
\* operations whose n-th call succeeds or fails as plan[n] says.
Operations ==
    {[kind |-> "unreliable", plan |-> <<>>]} \cup
    {[kind |-> "scripted", plan |-> p] : p \in [1..MaxRetries -> BOOLEAN]}

\* Outcome of the n-th call of the operation.  unreliableOperation counts
\* its calls in attemptCount and throws while attemptCount < 3.
OperationOutcome(op, n) ==
    IF op.kind = "unreliable"
    THEN IF n < 3
         THEN [ok |-> FALSE, v |-> Val("Simulated failure", n)]
         ELSE [ok |-> TRUE, v |-> Val("Success after retries!", 0)]
    ELSE IF op.plan[n]
         THEN [ok |-> TRUE, v |-> Val("value", n)]
         ELSE [ok |-> FALSE, v |-> Val("error", n)]

\* Faulty variant: the loop stops one attempt early.
LoopTest_strict(attempt, maxRetries) == attempt < maxRetries

\* Faulty variant: the loop body runs at least once (do ... while).
LoopTest_atLeastOnce(attempt, maxRetries) == attempt = 1 \/ attempt <= maxRetries

\* `attempt <= maxRetries`
LoopTest(attempt, maxRetries) == attempt <= maxRetries

\* Faulty variant: the test for the last attempt never succeeds.
IsLastAttempt_never(attempt, maxRetries) == attempt > maxRetries

\* `if (attempt === maxRetries)`
IsLastAttempt(attempt, maxRetries) == attempt = maxRetries

\* Faulty variant: the exponent starts at 0.
Backoff_fromZero(attempt) == (2 ^ (attempt - 1)) * 100

\* `Math.pow(2, attempt) * 100`
Backoff(attempt) == (2 ^ attempt) * 100

\* new Error(`Operation failed after ${maxRetries} attempts: ${error.message}`)
FinalError(maxRetries, err) ==
    [text |-> "Operation failed after", n |-> maxRetries, cause |-> <<err.text, err.n>>]

\* The head of the for loop: either the next call of operation(), at which
\* the function suspends, or the end of the loop and of the function.
LoopHead(r) ==
    IF LoopTest(r.attempt, r.maxRetries)
    THEN [r EXCEPT !.opCalls = @ + 1, !.inFlight = @ + 1, !.pc = "awaitOp"]
    ELSE [r EXCEPT !.pc = "done",
                   !.result = [status |-> "fulfilled", value |-> Val("undefined", 0)]]

RetryInit ==
    /\ QueueInit
    /\ wt = NoTimeout
    /\ fo = NoFaulty
    /\ el = NoLoop
    /\ Rest
    /\ \E m \in (-1)..MaxRetries, op \in Operations :
           rt = [NoRetry EXCEPT !.maxRetries = m, !.op = op, !.pc = "call"]

\* retryOperation is called: `attempt = 1` and the first round of the loop.
RetryEnter ==
    /\ rt.pc = "call"
    /\ rt' = LoopHead([rt EXCEPT !.attempt = 1])
    /\ UNCHANGED exceptRetry

\* The promise of the running operation() settles and the function resumes:
\* it returns the value, or logs the failure and either throws the final
\* error or starts the back-off timer.
OperationSettles ==
    /\ rt.pc = "awaitOp"
    /\ LET o == OperationOutcome(rt.op, rt.opCalls)
           r == [rt EXCEPT !.inFlight = @ - 1]
       IN  rt' = IF o.ok
                 THEN [r EXCEPT !.pc = "done",
                                !.result = [status |-> "fulfilled", value |-> o.v]]
                 ELSE LET r1 == [r EXCEPT !.printed = Append(@, <<r.attempt, o.v>>)]
                      IN  IF IsLastAttempt(r.attempt, r.maxRetries)
                          THEN [r1 EXCEPT !.pc = "done",
                                          !.result = [status |-> "rejected",
                                                      value |-> FinalError(r.maxRetries, o.v)]]
                          ELSE [r1 EXCEPT !.pc = "backoff",
                                          !.waits = Append(@, Backoff(r.attempt))]
    /\ UNCHANGED exceptRetry

\* The back-off timer fires: `attempt++` and the next round of the loop.
BackoffElapsed ==
    /\ rt.pc = "backoff"
    /\ rt' = LoopHead([rt EXCEPT !.attempt = @ + 1])
    /\ UNCHANGED exceptRetry

NextRetry ==
    \/ RetryEnter
    \/ OperationSettles
    \/ BackoffElapsed

RetrySpec == RetryInit /\ [][NextRetry]_vars

----------------------------------------------------------------------------
\* withTimeout(promise, timeoutMs) of examples.js, called as in
\* timeoutExample on the promise of an operation that settles `duration`
\* milliseconds after the call.

Timeouts == {1000 * i : i \in 1..MaxSeconds}

\* slowOperation takes 2000 ms; the others stand for any promise.
Durations == {500} \cup {1000 * i : i \in 1..MaxSeconds}

\* new Error(`Operation timed out after ${timeoutMs}ms`)
TimeoutError(timeoutMs) == Val("Operation timed out after", timeoutMs)

\* How the raced promise settles: slowOperation returns its text, a failing
\* operation rejects.
PromiseOutcome(ok) ==
    IF ok THEN <<"resolve", Val("Slow operation completed", 0)>>
    ELSE <<"reject", Val("operation error", 0)>>

\* Faulty variant: the last settlement decides.
RaceState_last(cs) ==
    IF cs = <<>> THEN <<"pending", Val("none", 0)>>
    ELSE IF cs[Len(cs)][1] = "resolve" THEN <<"fulfilled", cs[Len(cs)][2]>>
    ELSE <<"rejected", cs[Len(cs)][2]>>

\* State of the promise returned by Promise.race, given the calls its two
\* reactions made on its resolving functions: the first call decides.
RaceState(cs) ==
    IF cs = <<>> THEN <<"pending", Val("none", 0)>>
    ELSE IF cs[1][1] = "resolve" THEN <<"fulfilled", cs[1][2]>>
    ELSE <<"rejected", cs[1][2]>>

\* Faulty variant: the winner cancels the loser (clearTimeout, abort).
StillPending_cancelled(pending) == FALSE

\* What becomes of the other contender when one has settled: withTimeout
\* keeps no handle on the timer or on the operation, so it stays as it is.
StillPending(pending) == pending

TimeoutInit ==
    /\ QueueInit
    /\ rt = NoRetry
    /\ fo = NoFaulty
    /\ el = NoLoop
    /\ Rest
    /\ \E t \in Timeouts, d \in Durations, ok \in BOOLEAN :
           wt = [NoTimeout EXCEPT !.timeoutMs = t, !.duration = d, !.ok = ok, !.pc = "call"]

\* withTimeout(operation(), timeoutMs): the operation has been started, the
\* timer is set and both promises are handed to Promise.race.
TimeoutCall ==
    /\ wt.pc = "call"
    /\ wt' = [wt EXCEPT !.pc = "racing", !.opPending = TRUE, !.timerPending = TRUE]
    /\ UNCHANGED exceptTimeout

\* The raced promise settles, `duration` ms after the call, and the
\* reaction of Promise.race passes its outcome on.  Nothing cancels it when
\* the timer has fired before.
PromiseSettles ==
    /\ wt.pc = "racing"
    /\ wt.opPending
    /\ wt.duration <= wt.timeoutMs \/ ~wt.timerPending
    /\ wt' = [wt EXCEPT !.opPending = FALSE,
                        !.timerPending = StillPending(@),
                        !.events = Append(@, "promise"),
                        !.raceCalls = Append(@, PromiseOutcome(wt.ok))]
    /\ UNCHANGED exceptTimeout

\* The timer fires, timeoutMs ms after the call: its promise is rejected
\* and the reaction of Promise.race passes the rejection on.  Nothing clears
\* the timer when the raced promise has settled before.
TimerFires ==
    /\ wt.pc = "racing"
    /\ wt.timerPending
    /\ wt.timeoutMs <= wt.duration \/ ~wt.opPending
    /\ wt' = [wt EXCEPT !.timerPending = FALSE,
                        !.opPending = StillPending(@),
                        !.events = Append(@, "timer"),
                        !.raceCalls = Append(@, <<"reject", TimeoutError(wt.timeoutMs)>>)]
    /\ UNCHANGED exceptTimeout

NextTimeout ==
    \/ TimeoutCall
    \/ PromiseSettles
    \/ TimerFires

TimeoutSpec == TimeoutInit /\ [][NextTimeout]_vars

----------------------------------------------------------------------------
\* faultyOperation(shouldFail = false) of lab3.js, called and awaited inside
\* try/catch as in Task 4 of runLab.

\* The argument: true, false, or left out.
FaultyArgs == {"true", "false", "omitted"}

\* `if (shouldFail)`, with the default value false for a missing argument
ShouldFail(arg) == arg = "true"

\* Faulty variant: the catch block throws a new Error with the same message.
Rethrow_wrapped(err, fresh) == Obj(fresh, err.text)

\* `throw error` in the catch block: the caught object itself
Rethrow(err, fresh) == err

\* faultyOperation(arg) is called: it logs, starts the 500 ms timer and
\* suspends at the await; the caller awaits the promise it returned.
FaultyCall(arg) ==
    /\ fo.pc = "idle"
    /\ Len(fo.results) < MaxFaultyCalls
    /\ fo' = [fo EXCEPT !.arg = arg, !.pc = "timer", !.thrown = Obj(0, "none"),
                        !.printed = Append(@, <<"log", "Running faulty operation...">>)]
    /\ UNCHANGED exceptFaulty

\* The timer fires and the function resumes inside its try block: it either
\* throws a new Error, which its catch block logs and throws again, or logs
\* and returns.  Either way its promise is settled.
FaultyResumes ==
    /\ fo.pc = "timer"
    /\ fo' = IF ShouldFail(fo.arg)
             THEN LET err == Obj(fo.errors + 1, "Something went wrong in the operation!")
                      out == Rethrow(err, fo.errors + 2)
                  IN  [fo EXCEPT !.pc = "settled",
                                 !.errors = IF out = err THEN @ + 1 ELSE @ + 2,
                                 !.thrown = err,
                                 !.printed = Append(@, <<"error", "Caught error in faultyOperation: " \o err.text>>),
                                 !.results = Append(@, [arg |-> fo.arg, status |-> "rejected",
                                                        value |-> out, thrown |-> err])]
             ELSE [fo EXCEPT !.pc = "settled",
                             !.printed = Append(@, <<"log", "Faulty operation completed successfully">>),
                             !.results = Append(@, [arg |-> fo.arg, status |-> "fulfilled",
                                                    value |-> Obj(0, "Operation successful"),
                                                    thrown |-> Obj(0, "none")])]
    /\ UNCHANGED exceptFaulty

\* The caller resumes after its await: in the try block with the value, or
\* in its catch block with the error.
CallerResumes ==
    /\ fo.pc = "settled"
    /\ LET r == fo.results[Len(fo.results)]
       IN  fo' = [fo EXCEPT !.pc = "idle",
                            !.printed = Append(@,
                                IF r.status = "fulfilled"
                                THEN <<"log", "Success result: " \o r.value.text>>
                                ELSE <<"error", "Expected error caught: " \o r.value.text>>)]
    /\ UNCHANGED exceptFaulty

NextFaulty ==
    \/ \E arg \in FaultyArgs : FaultyCall(arg)
    \/ FaultyResumes
    \/ CallerResumes

FaultySpec == Init /\ [][NextFaulty]_vars

----------------------------------------------------------------------------
\* The scripts that schedule callbacks: demonstrateEventLoop as runLab calls
\* it (lab3.js) and Phases 1 to 4 of event-loop-deep-dive.js.  A callback is
\* a name; its body is the sequence of the statements it executes.

Log(text) == [op |-> "log", a |-> text, n |-> 0]

SetTimeout(cb, ms) == [op |-> "setTimeout", a |-> cb, n |-> ms]

SetImmediate(cb) == [op |-> "setImmediate", a |-> cb, n |-> 0]

\* Promise.resolve().then(cb), or the continuation cb of an await whose
\* promise is being settled
Then(cb) == [op |-> "then", a |-> cb, n |-> 0]

\* `return Promise.resolve()` in a then-callback whose result promise has
\* the reaction cb: the result promise adopts the returned promise in two
\* further microtasks before cb is queued.
ReturnThenable(cb) == [op |-> "then", a |-> cb, n |-> 2]

NextTick(cb) == [op |-> "nextTick", a |-> cb, n |-> 0]

ReadFile(cb) == [op |-> "readFile", a |-> cb, n |-> 0]

\* processLargeDataset(data, cb), data being the list the script works on
CallProcessLargeDataset(cb) == [op |-> "processLargeDataset", a |-> cb, n |-> 0]

\* The setTimeout(.., 50) callback of Phase 6.
Phase6 ==
    << Log("> Phase 6: Proper Non-Blocking Patterns"), CallProcessLargeDataset("p6.done") >>

\* Phase 6 of event-loop-deep-dive.js with the timers still pending when
\* it runs: those of Phase 7 and of the final message.
Dataset ==
    << SetTimeout("phase6", 50), SetTimeout("phase7", 60), SetTimeout("final", 70) >>

\* ['Item 1', ..., 'Item n']
LargeDataset(n) == [k \in 1..n |-> "Item " \o ToString(k)]

\* console.log('+ Processed item:', item)
ItemLine(item) == "+ Processed item: " \o item

\* Faulty variant: the promise callback is registered as a second timer.
DemonstrateEventLoop_promiseAsTimer ==
    << Log("1. Start (synchronous)"),
       SetTimeout("demo.timeout", 0),
       SetTimeout("demo.promise", 0),
       SetImmediate("demo.immediate"),
       Log("2. End (synchronous)") >>

\* demonstrateEventLoop()
DemonstrateEventLoop ==
    << Log("1. Start (synchronous)"),
       SetTimeout("demo.timeout", 0),
       Then("demo.promise"),
       SetImmediate("demo.immediate"),
       Log("2. End (synchronous)") >>

\* Faulty variant: the second callback is registered with setTimeout(.., 0).
Phase2_immediateAsTimer ==
    << Log("> Phase 2: Nested Event Loop Behavior"),
       SetTimeout("p2.timeout", 0),
       SetTimeout("p2.immediate", 0),
       Then("p2.promise"),
       NextTick("p2.tick"),
       Log("| Nested Synchronous") >>

\* The setTimeout(.., 10) callback of Phase 2.
Phase2 ==
    << Log("> Phase 2: Nested Event Loop Behavior"),
       SetTimeout("p2.timeout", 0),
       SetImmediate("p2.immediate"),
       Then("p2.promise"),
       NextTick("p2.tick"),
       Log("| Nested Synchronous") >>

\* The fs.readFile callback of Phase 3, when the read succeeded.
FileCallback ==
    << Log("| File I/O Callback:"),
       NextTick("p3.tick"),
       Then("p3.promise"),
       SetTimeout("p3.timeout", 0),
       SetImmediate("p3.immediate") >>

\* Faulty variant: the nested callback is queued as a promise reaction.
Phase4NextTick1_asPromise == << Log("> NextTick 1"), Then("p4.tick2") >>

\* The first process.nextTick callback of Phase 4.
Phase4NextTick1 == << Log("> NextTick 1"), NextTick("p4.tick2") >>

\* The setTimeout(.., 30) callback of Phase 4.
Phase4 ==
    << Log("> Phase 4: Microtask Queue Priority"),
       Then("p4.promise1"),
       Then("p4.promise3"),
       NextTick("p4.tick1"),
       NextTick("p4.tick3"),
       Log("| Synchronous in Phase 4") >>

\* The setTimeout(.., 40) callback of Phase 5.
Phase5 ==
    << Log("> Phase 5: Event Loop Blocking"),
       Log("! Blocking operation completed"),
       SetTimeout("p5.timeout", 0),
       SetImmediate("p5.immediate") >>

\* The top level of event-loop-deep-dive.js: Phase 1 and the timers of
\* Phases 2, 3, 4, 5, 7 and of the final message.
DeepDive ==
    << Log("1. Call Stack (Synchronous)"),
       SetTimeout("p1.timeout", 0),
       SetImmediate("p1.immediate"),
       Then("p1.promise"),
       NextTick("p1.tick"),
       Log("1. Call Stack (Synchronous) - End"),
       SetTimeout("phase2", 10),
       SetTimeout("phase3", 20),
       SetTimeout("phase4", 30),
       SetTimeout("phase5", 40),
       SetTimeout("phase7", 60),
       SetTimeout("final", 70) >>

\* runLab from `await faultyOperation(true)` on: the 500 ms timer of
\* faultyOperation, whose callback resumes faultyOperation and then runLab,
\* which calls demonstrateEventLoop and starts its own 100 ms timer.
RunLabResume ==
    << Log("Expected error caught:"), Log("TASK 5: Event Loop Demonstration") >>
    \o DemonstrateEventLoop \o << SetTimeout("runLab.done", 100) >>

Body(cb) ==
    CASE cb = "runLab"         -> << Log("Running faulty operation..."), SetTimeout("faulty.timer", 500) >>
      [] cb = "faulty.timer"   -> << Then("faulty.resume") >>
      [] cb = "faulty.resume"  -> << Log("Caught error in faultyOperation:"), Then("runLab.resume") >>
      [] cb = "runLab.resume"  -> RunLabResume
      [] cb = "runLab.done"    -> << Log("Lab 3 completed successfully!") >>
      [] cb = "demo.timeout"   -> << Log("4. Timeout callback (timer queue)") >>
      [] cb = "demo.promise"   -> << Log("3. Promise callback (microtask queue)") >>
      [] cb = "demo.immediate" -> << Log("5. Immediate callback (check queue)") >>
      [] cb = "deepDive"       -> DeepDive
      [] cb = "p1.timeout"     -> << Log("3. Timer Phase - setTimeout") >>
      [] cb = "p1.immediate"   -> << Log("4. Check Phase - setImmediate") >>
      [] cb = "p1.promise"     -> << Log("2. Microtask Queue - Promise") >>
      [] cb = "p1.tick"        -> << Log("> Process NextTick (highest priority)") >>
      [] cb = "phase2"         -> Phase2
      [] cb = "p2.timeout"     -> << Log("* Nested setTimeout") >>
      [] cb = "p2.immediate"   -> << Log("+ Nested setImmediate") >>
      [] cb = "p2.promise"     -> << Log("- Nested Promise") >>
      [] cb = "p2.tick"        -> << Log("> Nested NextTick") >>
      [] cb = "phase3"         -> << Log("> Phase 3: I/O Operations and Event Loop"), ReadFile("p3.file") >>
      [] cb = "p3.file"        -> FileCallback
      [] cb = "p3.file.err"    -> << Log("! File read error:") >>
      [] cb = "p3.tick"        -> << Log("> NextTick after I/O") >>
      [] cb = "p3.promise"     -> << Log("- Promise after I/O") >>
      [] cb = "p3.timeout"     -> << Log("* Timer after I/O") >>
      [] cb = "p3.immediate"   -> << Log("+ Immediate after I/O") >>
      [] cb = "phase4"         -> Phase4
      [] cb = "p4.promise1"    -> << Log("- Promise 1"), ReturnThenable("p4.promise2") >>
      [] cb = "p4.promise2"    -> << Log("- Promise 2 (chained)") >>
      [] cb = "p4.promise3"    -> << Log("- Promise 3") >>
      [] cb = "p4.tick1"       -> Phase4NextTick1
      [] cb = "p4.tick2"       -> << Log("> NextTick 2 (nested)") >>
      [] cb = "p4.tick3"       -> << Log("> NextTick 3") >>
      [] cb = "phase5"         -> Phase5
      [] cb = "p5.timeout"     -> << Log("* Timer after blocking") >>
      [] cb = "p5.immediate"   -> << Log("+ Immediate after blocking") >>
      [] cb = "dataset"        -> Dataset
      [] cb = "phase6"         -> Phase6
      [] cb = "p6.next"        -> << CallProcessLargeDataset("p6.done") >>
      [] cb = "p6.done"        -> << Log("* All items processed without blocking!") >>
      [] cb = "phase7"         -> << Log("> Phase 7: Event Loop Phases Summary") >>
      [] cb = "final"          -> << Log("* Event Loop Deep Dive Complete!") >>

Scripts == {"runLab", "deepDive"}

\* The Node.js event loop, as event-loop-deep-dive.js describes it (Phase
\* 7): timer phase, poll phase, check phase; between callbacks the
\* process.nextTick queue is emptied first, then the promise microtasks.

\* A delay of 0 is a delay of 1 ms.
Delay(ms) == IF ms < 1 THEN 1 ELSE ms

\* Faulty variant: the list is taken to be finished one item early.
IsEmpty_offByOne(data) == Len(data) <= 1

\* `data.length === 0`
IsEmpty(data) == Len(data) = 0

\* One call of processLargeDataset(data, callback) in loop state e: the
\* callback is called at once for an empty list; otherwise the first item
\* is removed and printed and the next call is queued with setImmediate.
ProcessLargeDataset(e, callback) ==
    IF IsEmpty(e.data)
    THEN [e EXCEPT !.run = Body(callback) \o @,
                   !.called = Append(@, [turn |-> e.turn, phase |-> e.phase])]
    ELSE LET item == Head(e.data)
         IN  [e EXCEPT !.data = Tail(@),
                       !.out = Append(@, ItemLine(item)),
                       !.items = Append(@, [item |-> item, turn |-> e.turn, phase |-> e.phase]),
                       !.imm = Append(@, "p6.next")]

\* Executing one statement in loop state e.
Exec(e, st) ==
    CASE st.op = "log"          -> [e EXCEPT !.out = Append(@, st.a)]
      [] st.op = "setTimeout"   -> [e EXCEPT !.timers = Append(@, [cb |-> st.a, due |-> e.now + Delay(st.n)])]
      [] st.op = "setImmediate" -> [e EXCEPT !.imm = Append(@, st.a)]
      [] st.op = "then"         -> [e EXCEPT !.micro = Append(@, [cb |-> st.a, hops |-> st.n])]
      [] st.op = "nextTick"     -> [e EXCEPT !.ticks = Append(@, st.a)]
      [] st.op = "readFile"     -> [e EXCEPT !.io = Append(@, st.a)]
      [] st.op = "processLargeDataset" -> ProcessLargeDataset(e, st.a)

\* No callback is running and both microtask queues are empty: the loop
\* can go on with its phases.
BetweenCallbacks == el.run = <<>> /\ el.ticks = <<>> /\ el.micro = <<>>

\* The timers that are due at the loop's time.
Expired(e) == {i \in 1..Len(e.timers) : e.timers[i].due <= e.now}

\* The due timer to run next: the earliest, the first set among equals.
NextTimer(e) ==
    CHOOSE i \in Expired(e) :
        \A j \in Expired(e) :
            \/ e.timers[i].due < e.timers[j].due
            \/ e.timers[i].due = e.timers[j].due /\ i <= j

Without(q, i) == SubSeq(q, 1, i - 1) \o SubSeq(q, i + 1, Len(q))

\* The times the loop can read at the start of an iteration: no measurable
\* time has passed, or a pending timer has become due meanwhile.
Clock(e) == {e.now} \cup {e.timers[i].due : i \in 1..Len(e.timers)}

LoopInit ==
    /\ QueueInit
    /\ rt = NoRetry
    /\ wt = NoTimeout
    /\ fo = NoFaulty
    /\ Rest
    /\ \E p \in Scripts :
           el = [NoLoop EXCEPT !.prog = p, !.phase = "main", !.run = Body(p)]

\* The running callback executes its next statement.
Statement ==
    /\ el.run # <<>>
    /\ el' = Exec([el EXCEPT !.run = Tail(@)], Head(el.run))
    /\ UNCHANGED exceptLoop

\* The next process.nextTick callback starts; the tick queue is looked at
\* again only once the promise microtasks in progress have all been run.
RunNextTick ==
    /\ el.run = <<>>
    /\ el.ticks # <<>>
    /\ ~(el.inMicro /\ el.micro # <<>>)
    /\ el' = [el EXCEPT !.run = Body(Head(el.ticks)), !.ticks = Tail(@), !.inMicro = FALSE]
    /\ UNCHANGED exceptLoop

\* The next promise microtask runs: a reaction callback, or one of the jobs
\* by which a promise adopts a returned promise.
RunMicrotask ==
    /\ el.run = <<>>
    /\ el.micro # <<>>
    /\ el.ticks = <<>> \/ el.inMicro
    /\ LET m == Head(el.micro)
       IN  el' = IF m.hops > 0
                 THEN [el EXCEPT !.micro = Append(Tail(@), [m EXCEPT !.hops = @ - 1]),
                                 !.inMicro = TRUE]
                 ELSE [el EXCEPT !.micro = Tail(@), !.run = Body(m.cb), !.inMicro = TRUE]
    /\ UNCHANGED exceptLoop

\* A loop iteration starts with the timer phase (after the main script or
\* after the check phase), or the process exits when nothing is pending.
EnterTimers ==
    /\ BetweenCallbacks
    /\ el.phase = "main" \/ (el.phase = "check" /\ el.immNow = <<>>)
    /\ IF el.timers = <<>> /\ el.imm = <<>> /\ el.io = <<>>
       THEN el' = [el EXCEPT !.phase = "exit", !.inMicro = FALSE]
       ELSE \E t \in Clock(el) :
                /\ t >= el.now
                /\ el' = [el EXCEPT !.phase = "timers", !.now = t, !.inMicro = FALSE]
    /\ UNCHANGED exceptLoop

\* Timer phase: a due timer's callback starts.
RunTimer ==
    /\ BetweenCallbacks
    /\ el.phase = "timers"
    /\ Expired(el) # {}
    /\ LET i == NextTimer(el)
       IN  el' = [el EXCEPT !.run = Body(el.timers[i].cb), !.timers = Without(@, i),
                            !.inMicro = FALSE, !.turn = @ + 1]
    /\ UNCHANGED exceptLoop

\* No timer is due any more: on to the poll phase.
EnterPoll ==
    /\ BetweenCallbacks
    /\ el.phase = "timers"
    /\ Expired(el) = {}
    /\ el' = [el EXCEPT !.phase = "poll", !.inMicro = FALSE]
    /\ UNCHANGED exceptLoop

\* Poll phase: a file read has finished and its callback starts, with the
\* data or with an error.
RunFileCallback(ok) ==
    /\ BetweenCallbacks
    /\ el.phase = "poll"
    /\ el.io # <<>>
    /\ el' = [el EXCEPT !.run = Body(IF ok THEN Head(el.io) ELSE "p3.file.err"),
                        !.io = Tail(@), !.inMicro = FALSE, !.turn = @ + 1]
    /\ UNCHANGED exceptLoop

\* On to the check phase, which runs the setImmediate callbacks queued so far.
EnterCheck ==
    /\ BetweenCallbacks
    /\ el.phase = "poll"
    /\ el' = [el EXCEPT !.phase = "check", !.immNow = el.imm, !.imm = <<>>,
                        !.inMicro = FALSE]
    /\ UNCHANGED exceptLoop

\* Check phase: the next setImmediate callback starts.
RunImmediate ==
    /\ BetweenCallbacks
    /\ el.phase = "check"
    /\ el.immNow # <<>>
    /\ el' = [el EXCEPT !.run = Body(Head(el.immNow)), !.immNow = Tail(@),
                        !.inMicro = FALSE, !.turn = @ + 1]
    /\ UNCHANGED exceptLoop

NextLoop ==
    \/ Statement
    \/ RunNextTick
    \/ RunMicrotask
    \/ EnterTimers
    \/ RunTimer
    \/ EnterPoll
    \/ \E ok \in BOOLEAN : RunFileCallback(ok)
    \/ EnterCheck
    \/ RunImmediate

LoopSpec == LoopInit /\ [][NextLoop]_vars

\* Phase 6 run on a list of any length up to MaxItems.
DatasetInit ==
    /\ QueueInit
    /\ rt = NoRetry
    /\ wt = NoTimeout
    /\ fo = NoFaulty
    /\ Rest
    /\ \E n \in 0..MaxItems :
           el = [NoLoop EXCEPT !.prog = "dataset", !.phase = "main", !.run = Body("dataset"),
                               !.input = LargeDataset(n), !.data = LargeDataset(n)]

\* The clock has advanced when a loop iteration starts.
TimePasses == EnterTimers /\ el'.now > el.now

NextDataset ==
    \/ Statement
    \/ EnterTimers
    \/ RunTimer
    \/ EnterPoll
    \/ EnterCheck
    \/ RunImmediate

\* The loop goes on as long as it has something to do, and a pending timer
\* becomes due at some time: the clock does not stand still for ever.
DatasetSpec ==
    /\ DatasetInit
    /\ [][NextDataset]_vars
    /\ WF_vars(NextDataset)
    /\ SF_vars(TimePasses)

----------------------------------------------------------------------------
\* runExamples of examples.js up to the end of cleanAsyncExample: the
\* callback chain is started and not awaited, a 100 ms timer is awaited,
\* then the async/await chain is run.  A file operation takes any time and
\* the operation number failAt of a chain fails (0: none does).

\* The file operations of callbackHellExample, outermost first.
HellSteps ==
    << <<"readFile", "input.txt">>, <<"writeFile", "temp1.txt">>,
       <<"readFile", "temp1.txt">>, <<"writeFile", "temp2.txt">> >>

\* The file operations of cleanAsyncExample, in program order.
CleanSteps ==
    << <<"readFile", "input.txt">>, <<"writeFile", "temp1.txt">>,
       <<"readFile", "temp1.txt">>, <<"writeFile", "temp2.txt">> >>

\* Faulty variant: an `if (err)` block without its `return`.
HellNext_noReturn(k, ok) == k + 1

\* What the callback of operation k does next: the operation nested in it
\* (5 stands for the completion message), or nothing after `return`.
HellNext(k, ok) == IF ok THEN k + 1 ELSE 0

\* What follows the await of operation k: the next statement of the try
\* block, or the catch block, after which the function ends.
CleanNext(k, ok) == IF ok THEN k + 1 ELSE 0

\* Operation k of a chain is started.
StartStep(c, steps, k) == [c EXCEPT !.started = Append(@, steps[k]), !.inFlight = TRUE]

\* The operation in flight of chain c finishes and the chain goes on to
\* step n: it reports a failure, and starts the next operation, prints its
\* completion message, or stops.
Continue(c, steps, n) ==
    LET k  == Len(c.started)
        ok == c.failAt # k
        c1 == [c EXCEPT !.inFlight = FALSE,
                        !.succeeded = IF ok THEN @ + 1 ELSE @,
                        !.failed = IF ok \/ @ # 0 THEN @ ELSE k,
                        !.reports = IF ok THEN @ ELSE @ + 1]
    IN  IF n \in 1..Len(steps) THEN StartStep(c1, steps, n)
        ELSE IF n = Len(steps) + 1 THEN [c1 EXCEPT !.completed = TRUE]
        ELSE c1

\* The chain has nothing more to do.
ChainOver(c) == c.started # <<>> /\ ~c.inFlight

ExamplesInit ==
    /\ QueueInit
    /\ rt = NoRetry
    /\ wt = NoTimeout
    /\ fo = NoFaulty
    /\ el = NoLoop
    /\ tq = NewTestQueue(OtherIds)
    /\ \E a, b \in 0..Len(HellSteps) :
           fc = [pc |-> "call", hell |-> [NoChain EXCEPT !.failAt = a],
                 clean |-> [NoChain EXCEPT !.failAt = b]]

\* runExamples(): callbackHellExample() starts its first read and returns;
\* runExamples then awaits its 100 ms timer.
RunExamples ==
    /\ fc.pc = "call"
    /\ fc' = [fc EXCEPT !.pc = "waiting", !.hell = StartStep(@, HellSteps, 1)]
    /\ UNCHANGED exceptExamples

\* A file operation of the callback chain finishes and its callback runs.
HellCallback ==
    /\ fc.hell.inFlight
    /\ LET k == Len(fc.hell.started)
       IN  fc' = [fc EXCEPT !.hell = Continue(@, HellSteps, HellNext(k, fc.hell.failAt # k))]
    /\ UNCHANGED exceptExamples

\* The 100 ms timer fires: runExamples resumes and calls
\* cleanAsyncExample(), which starts its first read.
WaitElapsed ==
    /\ fc.pc = "waiting"
    /\ fc' = [fc EXCEPT !.pc = "clean", !.clean = StartStep(@, CleanSteps, 1)]
    /\ UNCHANGED exceptExamples

\* A file operation of cleanAsyncExample finishes and the function resumes
\* after its await; when the function ends, runExamples resumes.
CleanResumes ==
    /\ fc.clean.inFlight
    /\ LET k == Len(fc.clean.started)
           c == Continue(fc.clean, CleanSteps, CleanNext(k, fc.clean.failAt # k))
       IN  fc' = [fc EXCEPT !.clean = c, !.pc = IF c.inFlight THEN @ ELSE "after"]
    /\ UNCHANGED exceptExamples

NextExamples ==
    \/ RunExamples
    \/ HellCallback
    \/ WaitElapsed
    \/ CleanResumes

ExamplesSpec == ExamplesInit /\ [][NextExamples]_vars

\* Two queue instances used side by side, in any interleaving.
NextTwo ==
    \/ \E t \in TwoInputs : Add(t)
    \/ \E k \in Ids : TaskComplete(k)
    \/ \E k \in Ids : Resume(k)
    \/ \E t \in TwoInputs : AddOther(t)
    \/ \E k \in OtherIds : TaskCompleteOther(k)
    \/ \E k \in OtherIds : ResumeOther(k)

TwoSpec == Init /\ [][NextTwo]_vars

----------------------------------------------------------------------------
\* The AsyncTaskQueue of lab3.js (record `other`) and its copy in
\* tests/test.js (record `tq`) driven by the same add() calls and the same
\* task completions.

PairIds == 1..MaxPair

\* The pieces of add() and process() of tests/test.js.

\* this.tasks.push(entry)
TestPush(q, e) == Append(q, e)

\* the guard of add(): `if (!this.isRunning)`
TestShouldStart(running) == ~running

\* the guard of process(): `if (this.isRunning || this.tasks.length === 0) return;`
TestGuard(running, q) == running \/ Len(q) = 0

\* this.tasks.shift()
TestShift(q) == [entry |-> Head(q), rest |-> Tail(q)]

\* try-branch after the await: `resolve(result)`
TestOnResult(v) == << <<"resolve", v>> >>

\* Faulty variant: an empty catch block.
TestCatch_swallow(err) == <<>>

\* catch-branch: `reject(error)`
TestCatch(err) == << <<"reject", err>> >>

\* The while loop of process() of tests/test.js, from its loop test up to
\* the next suspension at `await task()` or to the end of the function.
RECURSIVE TestWhileLoop(_)
TestWhileLoop(s) ==
    IF Len(s.tasks) = 0
    THEN [s EXCEPT !.isRunning = FALSE,
                   !.log = Append(@, <<"all_completed", s.taskCount>>)]
    ELSE LET d  == TestShift(s.tasks)
             e  == d.entry
             s1 == [s EXCEPT !.tasks = d.rest,
                             !.taskCount = @ + 1,
                             !.log = Append(@, <<"testing", s.taskCount + 1>>),
                             !.started = Append(@, e),
                             !.order = Append(@, <<"start", e>>)]
         IN  IF InvokeThrows(s.submitted[e])
             THEN LET c == TestCatch(s.submitted[e].val)
                  IN  TestWhileLoop([s1 EXCEPT !.taskState[e] = "threw",
                                               !.calls[e] = @ \o c,
                                               !.order = @ \o Settled(e, c)])
             ELSE [s1 EXCEPT !.taskState[e] = "running",
                             !.awaiting = @ \cup {e}]

\* process() of tests/test.js from its first line up to its first
\* suspension or its end.
TestProcess(s) ==
    IF TestGuard(s.isRunning, s.tasks)
    THEN s
    ELSE TestWhileLoop([s EXCEPT !.isRunning = TRUE, !.taskCount = 0])

\* add(t) of tests/test.js on the instance s.
TestAdd(s, t) ==
    LET k  == Len(s.submitted) + 1
        s1 == [s EXCEPT !.submitted = Append(@, t), !.tasks = TestPush(@, k)]
    IN  IF TestShouldStart(s1.isRunning) THEN TestProcess(s1) ELSE s1

\* The activation of process() of tests/test.js suspended on entry k
\* resumes after the await.
TestResume(s, k) ==
    LET s0 == [s EXCEPT !.awaiting = @ \ {k}]
        cs == IF s.taskState[k] = "fulfilled"
              THEN TestOnResult(s.submitted[k].val)
              ELSE TestCatch(s.submitted[k].val)
    IN  TestWhileLoop([s0 EXCEPT !.calls[k] = @ \o cs, !.order = @ \o Settled(k, cs)])

\* add(t) of lab3.js on the instance s.
LabAdd(s, t) ==
    LET k  == Len(s.submitted) + 1
        s1 == [s EXCEPT !.submitted = Append(@, t), !.tasks = Push(@, k)]
    IN  IF ShouldStart(s1.isRunning) THEN Process(s1) ELSE s1

\* The activation of process() of lab3.js suspended on entry k resumes
\* after the await.
LabResume(s, k) ==
    LET s0 == [s EXCEPT !.awaiting = @ \ {k}]
    IN  IF s.taskState[k] = "fulfilled"
        THEN LET r == OnResult(s.submitted[k].val)
             IN  WhileLoop([s0 EXCEPT !.calls[k] = @ \o r, !.order = @ \o Settled(k, r)])
        ELSE LET c  == Catch(s.submitted[k].val)
                 s1 == [s0 EXCEPT !.calls[k] = @ \o c.calls,
                                  !.order = @ \o Settled(k, c.calls)]
             IN  IF c.caught THEN WhileLoop(s1) ELSE s1

\* The promise returned by task k has been obtained by instance s and is
\* pending.
Running(s, k) == k \in 1..Len(s.submitted) /\ s.taskState[k] = "running"

\* The promise of the running task k settles, as the task decides.
Settle(s, k) ==
    [s EXCEPT !.taskState[k] =
         IF s.submitted[k].kind = "async_ok" THEN "fulfilled" ELSE "rejected"]

\* The activation suspended on entry k can resume.
CanResume(s, k) == k \in s.awaiting /\ s.taskState[k] \in {"fulfilled", "rejected"}

PairInit ==
    /\ submitted = <<>>
    /\ tasks = <<>>
    /\ isRunning = FALSE
    /\ awaiting = {}
    /\ taskState = [k \in Ids |-> "queued"]
    /\ started = <<>>
    /\ calls = [k \in Ids |-> <<>>]
    /\ log = <<>>
    /\ waitsOn = [k \in Ids |-> 0]
    /\ order = <<>>
    /\ addThrew = FALSE
    /\ burst = NoBurst
    /\ startedAtAdd = <<>>
    /\ other = NewQueue(PairIds)
    /\ tq = NewTestQueue(PairIds)
    /\ rt = NoRetry
    /\ wt = NoTimeout
    /\ fo = NoFaulty
    /\ el = NoLoop
    /\ fc = NoExamples

\* The same add() call is made on both instances.
AddPair(t) ==
    /\ Len(other.submitted) < MaxPair
    /\ other' = LabAdd(other, t)
    /\ tq' = TestAdd(tq, t)
    /\ UNCHANGED exceptPair

\* The promise that the k-th task returned settles, on each side that has
\* invoked the task.
TaskCompletePair(k) ==
    /\ Running(other, k) \/ Running(tq, k)
    /\ other' = IF Running(other, k) THEN Settle(other, k) ELSE other
    /\ tq' = IF Running(tq, k) THEN Settle(tq, k) ELSE tq
    /\ UNCHANGED exceptPair

\* The activations suspended on entry k resume.
ResumePair(k) ==
    /\ CanResume(other, k) \/ CanResume(tq, k)
    /\ other' = IF CanResume(other, k) THEN LabResume(other, k) ELSE other
    /\ tq' = IF CanResume(tq, k) THEN TestResume(tq, k) ELSE tq
    /\ UNCHANGED exceptPair

NextPair ==
    \/ \E t \in TaskInputs : AddPair(t)
    \/ \E k \in PairIds : TaskCompletePair(k)
    \/ \E k \in PairIds : ResumePair(k)

PairSpec == PairInit /\ [][NextPair]_vars

----------------------------------------------------------------------------
\* Derived notions.

\* State of the promise returned by the k-th add(): the first call on its
\* resolve/reject handles decides it, later calls have no effect.
PromiseState(k) ==
    IF calls[k] = <<>> THEN <<"pending", "none">>
    ELSE IF calls[k][1][1] = "resolve" THEN <<"fulfilled", calls[k][1][2]>>
    ELSE <<"rejected", calls[k][1][2]>>

Submitted == 1..Len(submitted)

Done(k) ==
    \/ taskState[k] = "threw"
    \/ taskState[k] \in {"fulfilled", "rejected"} /\ k \notin awaiting

Fails(t) == t.kind \in {"async_fail", "sync_throw", "not_callable"}

Idle == ~isRunning /\ tasks = <<>>

\* Promise.all over the promises returned by the add() calls made so far,
\* once all of them are fulfilled: the values in argument order.
PromiseAll ==
    IF \A k \in Submitted : PromiseState(k)[1] = "fulfilled"
    THEN <<"fulfilled", [k \in Submitted |-> PromiseState(k)[2]]>>
    ELSE <<"unsettled", <<>>>>

----------------------------------------------------------------------------
\* C1: tasks begin execution in exactly the order of their add() calls:
\* the i-th task to be invoked is the i-th submitted one, whatever the
\* interleaving of add() calls and completions.
C1_StartOrderIsSubmissionOrder ==
    \A i \in 1..Len(started) : started[i] = i

C1_Witness ==
    /\ Len(started) >= 3
    /\ Len(tasks) = 0
    /\ \E k \in Submitted : taskState[k] = "fulfilled"

\* C2: at most one task is in flight: no two tasks are started and not yet
\* completed at the same time, and a running task is never overtaken by a
\* later-submitted one.
C2_AtMostOneInFlight ==
    /\ Cardinality({k \in Ids : taskState[k] = "running"}) <= 1
    /\ \A k \in Ids : taskState[k] = "running" =>
           \A j \in Submitted : (j > k => taskState[j] = "queued")

C2_Witness ==
    \E k \in Submitted :
        /\ taskState[k] = "running"
        /\ Len(tasks) >= 1
        /\ k > 1

\* C3: the promise returned by the k-th add() is fulfilled with the value
\* of the k-th task, so Promise.all over the returned promises gives the
\* task values in submission order.
C3_ResultsInSubmissionOrder ==
    /\ \A k \in Submitted :
           PromiseState(k)[1] = "fulfilled" =>
               /\ submitted[k].kind = "async_ok"
               /\ PromiseState(k)[2] = submitted[k].val
    /\ PromiseAll[1] = "fulfilled" =>
           PromiseAll[2] = [k \in Submitted |-> submitted[k].val]

C3_Witness ==
    /\ Len(submitted) >= 3
    /\ PromiseAll[1] = "fulfilled"
    /\ submitted[1].val # submitted[2].val

\* C4 as stated: at most one drain loop is active, no task is invoked
\* twice, and add() calls made back to back from an idle queue start
\* exactly one drain loop.
C4_Original ==
    /\ Cardinality(awaiting) <= 1
    /\ \A i, j \in 1..Len(started) : started[i] = started[j] => i = j
    /\ burst.n >= 2 => burst.starts = 1

\* C4 amended: at most one drain loop is active and no task is invoked
\* twice; add() calls made back to back from an idle queue start exactly
\* one drain loop when the first task's invocation returns, and more than
\* one (never overlapping) when the first task throws on invocation.
C4_AtMostOneDrain ==
    /\ Cardinality(awaiting) <= 1
    /\ \A i, j \in 1..Len(started) : started[i] = started[j] => i = j
    /\ burst.n >= 2 =>
           (burst.starts = 1 <=> ~InvokeThrows(submitted[burst.first]))

C4_Witness ==
    /\ burst.n >= 2
    /\ burst.starts = 1
    /\ Cardinality(awaiting) = 1

\* C5: every returned promise is settled exactly once: its handles are
\* called at most once in all, exactly once when its task is over, and the
\* call carries the outcome of that same task.
C5_SettledExactlyOnce ==
    \A k \in Submitted :
        /\ Len(calls[k]) <= 1
        /\ Done(k) => Len(calls[k]) = 1
        /\ Len(calls[k]) >= 1 =>
               /\ Done(k)
               /\ calls[k][1] = <<(IF Fails(submitted[k]) THEN "reject" ELSE "resolve"),
                                  submitted[k].val>>

C5_Witness ==
    \E j, k \in Submitted :
        /\ calls[j] # <<>> /\ calls[j][1][1] = "resolve"
        /\ calls[k] # <<>> /\ calls[k][1][1] = "reject"

\* C6: when exactly one submitted task K fails and the others succeed,
\* only K's promise rejects, with K's own error, and every other settled
\* promise is fulfilled with its own task's value.
C6_IndependentOutcomes ==
    \A K \in Submitted :
        (/\ Fails(submitted[K])
         /\ \A j \in Submitted \ {K} : submitted[j].kind = "async_ok")
        => \A j \in Submitted :
               /\ PromiseState(j)[1] = "rejected" =>
                      j = K /\ PromiseState(j)[2] = submitted[K].val
               /\ (j # K /\ Done(j)) =>
                      PromiseState(j) = <<"fulfilled", submitted[j].val>>
               /\ (j = K /\ Done(j)) => PromiseState(j)[1] = "rejected"

C6_Witness ==
    /\ Len(submitted) >= 3
    /\ submitted[2].kind = "async_fail"
    /\ submitted[1].kind = "async_ok" /\ submitted[3].kind = "async_ok"
    /\ \A j \in Submitted : Done(j)

\* C7: a failure does not stop the drain loop: once a task has failed, the
\* queue goes on to start every entry in submission order, completes it,
\* and comes back to idle.
C7_FailureDoesNotStopDrain ==
    (\E k \in Submitted : taskState[k] \in {"rejected", "threw"})
        ~> (/\ Idle
            /\ started = [i \in Submitted |-> i]
            /\ \A j \in Submitted : Done(j))

C7_Witness ==
    /\ Len(submitted) >= 3
    /\ taskState[2] = "rejected"
    /\ taskState[3] = "fulfilled"
    /\ Done(3)
    /\ Idle

\* C8: a non-callable value given to add() rejects its own promise only;
\* the entries before and after it are started in order and get their own
\* outcomes, and the queue is never Draining without a live drain loop.
C8_InvalidTaskIsLocal ==
    (\E n \in Submitted : submitted[n].kind = "not_callable")
    => /\ \A n \in Submitted :
              (submitted[n].kind = "not_callable" /\ taskState[n] # "queued")
              => PromiseState(n) = <<"rejected", "TypeError">>
       /\ \A i \in 1..Len(started) : started[i] = i
       /\ \A j \in Submitted :
              (submitted[j].kind # "not_callable" /\ calls[j] # <<>>)
              => PromiseState(j) = <<(IF Fails(submitted[j]) THEN "rejected" ELSE "fulfilled"),
                                     submitted[j].val>>
       /\ isRunning => Cardinality(awaiting) = 1
       /\ ~isRunning => tasks = <<>>

C8_Witness ==
    /\ Len(submitted) >= 3
    /\ submitted[2].kind = "not_callable"
    /\ PromiseState(1)[1] = "fulfilled"
    /\ PromiseState(2)[1] = "rejected"
    /\ PromiseState(3)[1] = "fulfilled"
    /\ Idle

\* C9: add() never throws to its caller, whatever is passed as the task and
\* whatever state the queue is in; failures only reject the returned promise.
C9_AddNeverThrows ==
    /\ addThrew = FALSE
    /\ \A k \in Submitted :
           taskState[k] = "threw" => PromiseState(k)[1] = "rejected"

C9_Witness ==
    \E j, k \in Submitted :
        /\ submitted[j].kind = "not_callable" /\ taskState[j] = "threw"
        /\ submitted[k].kind = "sync_throw" /\ taskState[k] = "threw"

\* C10: when every started task completes, the queue ends up idle for good
\* with an empty pending list, every submitted task executed and every
\* returned promise settled.
Quiescent ==
    /\ Idle
    /\ awaiting = {}
    /\ \A k \in Submitted :
           /\ \E i \in 1..Len(started) : started[i] = k
           /\ PromiseState(k)[1] # "pending"

C10_EventuallyIdle == <>[]Quiescent

C10_Witness ==
    /\ Len(submitted) >= 3
    /\ Quiescent
    /\ \E k \in Submitted : submitted[k].kind = "async_ok"

\* A step in which add() was called: the list of submissions grew by one.
AddStep == Len(submitted') = Len(submitted) + 1

\* a is what is left of b after removing some entries from its head
IsSuffix(a, b) ==
    /\ Len(a) <= Len(b)
    /\ a = SubSeq(b, Len(b) - Len(a) + 1, Len(b))

\* C11: a drained queue is like a new one (flag clear, nothing pending, no
\* loop alive); an add() on it starts a new drain that invokes the new task
\* at once, and every drain, also one that follows failed tasks, comes back
\* to the idle state with everything executed and settled.
C11_ReusableAfterDrain ==
    /\ [](~isRunning => (tasks = <<>> /\ awaiting = {}))
    /\ [][(AddStep /\ ~isRunning) =>
             /\ DrainStarts(log') = DrainStarts(log) + 1
             /\ started' = Append(started, Len(submitted'))]_vars
    /\ isRunning ~> Quiescent

C11_Witness ==
    /\ DrainStarts(log) >= 3
    /\ Quiescent
    /\ taskState[1] \in {"rejected", "threw"}
    /\ taskState[3] = "fulfilled"

\* C12: isRunning goes from false to true only in an add() made on an idle
\* queue, once the pushed entry has made the list non-empty, and from true
\* to false only when the drain loop finds the list empty; the flag is set
\* exactly while one more drain has started than has ended.
C12_FlagTransitions ==
    /\ [](DrainStarts(log) - DrainEnds(log) = IF isRunning THEN 1 ELSE 0)
    /\ [](\A i \in 1..Len(log) :
             log[i][1] = "starting" => (i < Len(log) /\ log[i + 1][1] = "processing"))
    /\ [][(~isRunning /\ isRunning') =>
             /\ AddStep
             /\ tasks = <<>>
             /\ log'[Len(log) + 1] = <<"starting", 0>>]_vars
    /\ [][(isRunning /\ ~isRunning') =>
             /\ ~AddStep
             /\ tasks' = <<>>
             /\ awaiting' = {}
             /\ log'[Len(log')] = <<"all_completed", 0>>]_vars

C12_Witness ==
    /\ DrainStarts(log) >= 2
    /\ DrainEnds(log) >= 1
    /\ isRunning
    /\ Len(tasks) >= 1

\* C13: an add() made while the queue is draining only appends the new
\* entry at the tail: the flag stays set, the in-flight task and the
\* entries already pending are untouched and the new task is not invoked.
C13_AddWhileDrainingOnlyAppends ==
    [][(AddStep /\ isRunning) =>
          /\ tasks' = Append(tasks, Len(submitted'))
          /\ isRunning'
          /\ awaiting' = awaiting
          /\ taskState' = taskState
          /\ started' = started
          /\ calls' = calls
          /\ log' = log]_vars

C13_Witness ==
    /\ isRunning
    /\ Len(tasks) >= 2
    /\ \E k \in awaiting : taskState[k] = "running"

\* C14: the pending list only changes by an append of the new entry at the
\* tail (add) and by removals of the head entry (drain loop): after every
\* step it is a tail part of the old list, or of the old list with the new
\* entry appended, and its entries stay in submission order.
C14_PendingIsFifo ==
    /\ [](\A i, j \in 1..Len(tasks) : i < j => tasks[i] < tasks[j])
    /\ [][IF AddStep
          THEN IsSuffix(tasks', Append(tasks, Len(submitted')))
          ELSE IsSuffix(tasks', tasks)]_vars

C14_Witness ==
    /\ tasks = <<3>>
    /\ started = <<1, 2>>

\* C15 as stated: an entry stays in the pending list while its task is
\* executing and leaves it only after its handle has been notified.
C15_Original ==
    \A k \in Submitted :
        /\ taskState[k] = "running" => (\E i \in 1..Len(tasks) : tasks[i] = k)
        /\ (\A i \in 1..Len(tasks) : tasks[i] # k) => calls[k] # <<>>

\* C15 amended: an entry is in the pending list exactly while its task has
\* not been invoked; it is removed just before the invocation and is held
\* by the suspended drain loop, un-notified, while the task executes; it is
\* dropped by the loop only once its handle has been notified.
C15_EntryLifecycle ==
    \A k \in Submitted :
        /\ (\E i \in 1..Len(tasks) : tasks[i] = k) <=> taskState[k] = "queued"
        /\ taskState[k] = "running" => (k \in awaiting /\ calls[k] = <<>>)
        /\ k \in awaiting => calls[k] = <<>>
        /\ (taskState[k] # "queued" /\ k \notin awaiting) => calls[k] # <<>>

C15_Witness ==
    \E j, k \in Submitted :
        /\ taskState[j] = "running" /\ j \in awaiting
        /\ taskState[k] = "threw" /\ calls[k] # <<>>
        /\ Len(tasks) >= 1

\* C16: there is no timeout and no cancellation: across any step that
\* leaves a task in flight the queue stays draining, nothing is started and
\* nothing is settled; a task that never completes stays in flight for
\* ever, and every entry behind it stays pending with its promise unsettled.
Hung(k) == k \in Submitted /\ submitted[k].kind = "hang" /\ taskState[k] = "running"

C16_NoTimeoutNoCancel ==
    /\ [][\A k \in Ids :
             (taskState[k] = "running" /\ taskState'[k] = "running")
             => (isRunning /\ isRunning' /\ started' = started /\ calls' = calls
                 /\ awaiting' = awaiting)]_vars
    /\ [][\A k \in Ids : Hung(k) => Hung(k)']_vars
    /\ [](\A k \in Ids : Hung(k) =>
             /\ isRunning
             /\ calls[k] = <<>>
             /\ \A j \in Submitted : j > k =>
                    (taskState[j] = "queued" /\ calls[j] = <<>>))

C16_Witness ==
    /\ Len(submitted) >= 3
    /\ Hung(2)
    /\ PromiseState(1)[1] # "pending"
    /\ tasks = <<3>>

\* C17: two instances are isolated: no step changes the list, the flag or
\* anything else of both instances, so an add(), a start or a completion on
\* one leaves the other as it was; and an add() on an idle instance invokes
\* its task at once, whatever is in flight on the other instance.
C17_InstancesIsolated ==
    /\ [][(other' # other) => UNCHANGED firstQueue]_vars
    /\ [][(Len(other'.submitted) = Len(other.submitted) + 1 /\ ~other.isRunning)
          => other'.started = Append(other.started, Len(other'.submitted))]_vars
    /\ [][(AddStep /\ ~isRunning)
          => started' = Append(started, Len(submitted'))]_vars
    /\ [](other.isRunning <=> other.awaiting # {})
    /\ [](isRunning <=> awaiting # {})

C17_Witness ==
    /\ Hung(1)
    /\ Len(tasks) >= 1
    /\ Len(other.submitted) >= 2
    /\ other.calls[1] # <<>>
    /\ other.taskState[2] = "running"

\* C18: getCompletedTaskCount() returns the number of tasks that have
\* completed so far on the queue.
C18_CountIsCompleted ==
    GetCompletedTaskCount(tasks) = Cardinality({k \in Submitted : Done(k)})

\* The numbers of the 'Processing task n...' lines printed so far.
ProcessingNumbers ==
    LET sel == SelectSeq(log, LAMBDA x : x[1] = "processing")
    IN  [i \in 1..Len(sel) |-> sel[i][2]]

\* Three tasks that return promises were added before the continuation of
\* the first one ran, the first of them to an idle queue (as runLab does).
RunLabScenario ==
    /\ Len(submitted) >= 3
    /\ \A k \in 1..3 : ~InvokeThrows(submitted[k])
    /\ SubSeq(startedAtAdd, 1, 3) = <<0, 1, 1>>

\* C19: with three tasks added back to back to an idle queue, the line
\* printed before the k-th task runs is 'Processing task k'.
C19_ProgressNumbers ==
    RunLabScenario =>
        \A i \in 1..Len(ProcessingNumbers) : i <= 3 => ProcessingNumbers[i] = i

\* C20: with maxRetries >= 1 retryOperation calls operation at most
\* maxRetries times, never two calls at once, and is fulfilled with the
\* value of the first call that succeeds, after which nothing more happens;
\* unreliableOperation with maxRetries = 3 takes exactly 3 calls and gives
\* 'Success after retries!'.
C20_RetryStopsAtFirstSuccess ==
    /\ [](rt.maxRetries >= 1 =>
            /\ rt.opCalls <= rt.maxRetries
            /\ rt.inFlight <= 1
            /\ rt.result.status = "fulfilled" =>
                   /\ rt.pc = "done" /\ rt.inFlight = 0
                   /\ rt.opCalls >= 1
                   /\ OperationOutcome(rt.op, rt.opCalls).ok
                   /\ \A n \in 1..(rt.opCalls - 1) : ~OperationOutcome(rt.op, n).ok
                   /\ rt.result.value = OperationOutcome(rt.op, rt.opCalls).v
            /\ (rt.op.kind = "unreliable" /\ rt.maxRetries = 3 /\ rt.pc = "done") =>
                   /\ rt.opCalls = 3
                   /\ rt.result = [status |-> "fulfilled",
                                   value |-> Val("Success after retries!", 0)])
    /\ [][rt.result.status = "fulfilled" => rt' = rt]_vars

C20_Witness ==
    /\ rt.op.kind = "unreliable"
    /\ rt.maxRetries = 3
    /\ rt.pc = "done"
    /\ rt.opCalls = 3
    /\ rt.result.status = "fulfilled"

\* Every call of operation made so far has failed.
EveryAttemptFailed ==
    \A n \in 1..rt.opCalls : ~OperationOutcome(rt.op, n).ok

\* What retryOperation does when all its attempts fail: maxRetries calls,
\* a rejection with the error built from the last failure, and one back-off
\* wait between two attempts but none after the last.
FailsAfterAllAttempts ==
    /\ rt.opCalls = rt.maxRetries
    /\ rt.result = [status |-> "rejected",
                    value |-> FinalError(rt.maxRetries,
                                         OperationOutcome(rt.op, rt.maxRetries).v)]
    /\ Len(rt.waits) = rt.maxRetries - 1
    /\ Len(rt.printed) = rt.maxRetries

\* C21 as stated: if operation fails on every attempt, retryOperation makes
\* exactly maxRetries attempts and then rejects with 'Operation failed after
\* <maxRetries> attempts: <last message>', with no back-off after the last.
C21_Original ==
    (rt.pc = "done" /\ EveryAttemptFailed) => FailsAfterAllAttempts

\* C21 amended: the same for maxRetries >= 1; and while attempts are still
\* being made the function is not settled.
C21_RejectsAfterMaxRetries ==
    /\ (rt.pc = "done" /\ EveryAttemptFailed /\ rt.maxRetries >= 1)
           => FailsAfterAllAttempts
    /\ rt.pc \in {"awaitOp", "backoff"} => rt.result.status = "pending"
    /\ rt.pc = "backoff" => rt.attempt < rt.maxRetries

C21_Witness ==
    /\ rt.pc = "done"
    /\ rt.maxRetries = 3
    /\ rt.op.kind = "scripted"
    /\ EveryAttemptFailed
    /\ rt.result.status = "rejected"
    /\ rt.waits = <<200, 400>>

\* The positions in the history at which event ev happened.
Positions(ev) == {i \in 1..Len(order) : order[i] = ev}

\* C28: the promises returned by add() are settled in submission order: the
\* resolve or reject handle of the k-th submitted task is called before the
\* (k+1)-th submitted task is started.
C28_SettledBeforeNextStart ==
    /\ \A k \in Submitted :
           (k + 1 \in Submitted /\ Positions(<<"start", k + 1>>) # {}) =>
               \E i \in Positions(<<"settle", k>>) :
                   \A j \in Positions(<<"start", k + 1>>) : i < j
    /\ \A i, j \in 1..Len(order) :
           (i < j /\ order[i][1] = "settle" /\ order[j][1] = "settle")
               => order[i][2] < order[j][2]

C28_Witness ==
    /\ Len(submitted) = 3
    /\ submitted[1].kind = "async_fail"
    /\ submitted[2].kind = "sync_throw"
    /\ submitted[3].kind = "async_ok"
    /\ order = << <<"start", 1>>, <<"settle", 1>>, <<"start", 2>>, <<"settle", 2>>,
                  <<"start", 3>>, <<"settle", 3>> >>

\* The task the drain loop is suspended on.
InFlight == {k \in Submitted : taskState[k] \in {"running", "fulfilled", "rejected"}
                                 /\ calls[k] = <<>>}

\* C29: at every suspension point isRunning is true exactly when one task
\* is in flight, and isRunning false implies that the pending list is empty.
C29_FlagMeansInFlight ==
    /\ isRunning <=> Cardinality(InFlight) = 1
    /\ Cardinality(InFlight) <= 1
    /\ InFlight = awaiting
    /\ ~isRunning => tasks = <<>>

C29_Witness ==
    /\ isRunning
    /\ InFlight = {2}
    /\ tasks = <<3>>
    /\ taskState[1] = "threw"
    /\ DrainEnds(log) = 1

\* A reentrant task has been invoked and waits for its inner promise.
Waiting(k) ==
    /\ k \in Submitted
    /\ submitted[k].kind = "reentrant"
    /\ taskState[k] = "running"

\* C30: a task that add()s another task to the queue it is running in and
\* waits for that promise before completing never completes: neither
\* promise is settled, the queue stays Draining for ever and no later entry
\* is started.
C30_ReentrantWaitDeadlocks ==
    /\ [](\A k \in Ids : Waiting(k) =>
              /\ waitsOn[k] \in Submitted
              /\ taskState[waitsOn[k]] = "queued"
              /\ PromiseState(k)[1] = "pending"
              /\ PromiseState(waitsOn[k])[1] = "pending"
              /\ isRunning
              /\ awaiting = {k}
              /\ \A j \in Submitted : j > k => taskState[j] = "queued")
    /\ [][\A k \in Ids : Waiting(k) => (Waiting(k)' /\ started' = started)]_vars

C30_Witness ==
    /\ Len(submitted) = 3
    /\ Waiting(1)
    /\ waitsOn[1] = 2
    /\ tasks = <<2, 3>>
    /\ submitted[3].kind = "async_ok"
    /\ DrainStarts(log) = 1

\* Outcome of withTimeout when its first event is ev.
OutcomeOf(ev) ==
    IF ev = "timer" THEN <<"rejected", TimeoutError(wt.timeoutMs)>>
    ELSE IF wt.ok THEN <<"fulfilled", Val("Slow operation completed", 0)>>
    ELSE <<"rejected", Val("operation error", 0)>>

\* C22: withTimeout(promise, timeoutMs) settles exactly once, with the
\* outcome of whichever event happens first: the promise's own value or
\* error if it settles before timeoutMs elapse, otherwise a rejection with
\* 'Operation timed out after <timeoutMs>ms'; the second event never changes
\* the outcome.  A 2000 ms operation gives the timeout error with 1000 ms
\* and its value with 3000 ms.
C22_FirstEventDecides ==
    /\ [](/\ wt.events = <<>> => RaceState(wt.raceCalls)[1] = "pending"
          /\ wt.events # <<>> =>
                /\ RaceState(wt.raceCalls) = OutcomeOf(wt.events[1])
                /\ wt.duration < wt.timeoutMs => wt.events[1] = "promise"
                /\ wt.duration > wt.timeoutMs => wt.events[1] = "timer"
          /\ (wt.events # <<>> /\ wt.duration = 2000 /\ wt.ok) =>
                /\ wt.timeoutMs = 1000 =>
                       RaceState(wt.raceCalls) = <<"rejected", Val("Operation timed out after", 1000)>>
                /\ wt.timeoutMs = 3000 =>
                       RaceState(wt.raceCalls) = <<"fulfilled", Val("Slow operation completed", 0)>>)
    /\ [][RaceState(wt.raceCalls)[1] # "pending"
              => RaceState(wt.raceCalls') = RaceState(wt.raceCalls)]_vars

C22_Witness ==
    /\ wt.duration = 2000
    /\ wt.timeoutMs = 1000
    /\ wt.ok
    /\ wt.events = <<"timer", "promise">>
    /\ RaceState(wt.raceCalls) = <<"rejected", TimeoutError(1000)>>

\* C23: faultyOperation(shouldFail) resolves with 'Operation successful'
\* when shouldFail is false and rejects when it is true; the error is caught
\* inside the function and thrown again, so the caller observes the same
\* error object, with message 'Something went wrong in the operation!', and
\* never a resolved value.
C23_RethrowsSameError ==
    \A i \in 1..Len(fo.results) :
        LET r == fo.results[i]
        IN  /\ ~ShouldFail(r.arg) =>
                   /\ r.status = "fulfilled"
                   /\ r.value = Obj(0, "Operation successful")
            /\ ShouldFail(r.arg) =>
                   /\ r.status = "rejected"
                   /\ r.value = r.thrown
                   /\ r.value.id > 0
                   /\ r.value.text = "Something went wrong in the operation!"
                   /\ \E j \in 1..Len(fo.printed) :
                          fo.printed[j] = <<"error", "Caught error in faultyOperation: " \o r.thrown.text>>

C23_Witness ==
    /\ fo.pc = "idle"
    /\ Len(fo.results) = 2
    /\ fo.results[1].arg = "false"
    /\ fo.results[2].arg = "true"
    /\ fo.results[2].status = "rejected"
    /\ fo.printed[Len(fo.printed)] =
           <<"error", "Expected error caught: Something went wrong in the operation!">>

\* The printed lines that belong to the set ls, in the order printed.
Lines(ls) == SelectSeq(el.out, LAMBDA l : l \in ls)

\* Line a has been printed.
Printed(a) == \E i \in 1..Len(el.out) : el.out[i] = a

\* If line b has been printed then line a was printed before it.
Before(a, b) ==
    \A j \in 1..Len(el.out) :
        el.out[j] = b => \E i \in 1..(j - 1) : el.out[i] = a

IsPrefix(a, b) == Len(a) <= Len(b) /\ a = SubSeq(b, 1, Len(a))

DemoCallbacks ==
    {"3. Promise callback (microtask queue)", "4. Timeout callback (timer queue)",
     "5. Immediate callback (check queue)"}

\* C24: in demonstrateEventLoop both synchronous lines are printed before
\* any scheduled callback runs, and the promise callback '3.' runs before
\* both the setTimeout(0) callback and the setImmediate callback.
C24_SyncThenMicrotask ==
    /\ \A c \in DemoCallbacks :
           /\ Before("1. Start (synchronous)", c)
           /\ Before("2. End (synchronous)", c)
    /\ Before("3. Promise callback (microtask queue)", "4. Timeout callback (timer queue)")
    /\ Before("3. Promise callback (microtask queue)", "5. Immediate callback (check queue)")

C24_Witness ==
    /\ el.prog = "runLab"
    /\ \A c \in DemoCallbacks : Printed(c)
    /\ el.phase = "exit"

\* C25: when runLab calls demonstrateEventLoop, the setTimeout(0) callback
\* '4.' runs before the setImmediate callback '5.', so that the five lines
\* appear in the numbered order 1, 2, 3, 4, 5.
C25_TimeoutBeforeImmediate ==
    el.prog = "runLab" =>
        Before("4. Timeout callback (timer queue)", "5. Immediate callback (check queue)")

\* What Phase 4 prints, from its synchronous line on.
Phase4Order ==
    << "| Synchronous in Phase 4", "> NextTick 1", "> NextTick 3", "> NextTick 2 (nested)",
       "- Promise 1", "- Promise 3", "- Promise 2 (chained)" >>

Range(q) == {q[i] : i \in 1..Len(q)}

\* C26: among callbacks scheduled in the same turn all process.nextTick
\* callbacks, nested ones included, run before any promise callback, and
\* promise callbacks run in the order they were queued, a chained .then
\* after the already queued ones: Phase 4 prints NextTick 1, NextTick 3,
\* NextTick 2 (nested), Promise 1, Promise 3, Promise 2 (chained) after its
\* synchronous line; in Phases 1, 2 and 3 the nextTick line precedes the
\* promise line.
C26_NextTickThenPromises ==
    /\ IsPrefix(Lines(Range(Phase4Order)), Phase4Order)
    /\ Before("> Process NextTick (highest priority)", "2. Microtask Queue - Promise")
    /\ Before("> Nested NextTick", "- Nested Promise")
    /\ Before("> NextTick after I/O", "- Promise after I/O")

C26_Witness ==
    /\ el.prog = "deepDive"
    /\ Lines(Range(Phase4Order)) = Phase4Order
    /\ Printed("2. Microtask Queue - Promise")

\* What the callback of Phase 2 and the callbacks it schedules print.
Phase2Order ==
    << "| Nested Synchronous", "> Nested NextTick", "- Nested Promise",
       "+ Nested setImmediate", "* Nested setTimeout" >>

\* What the file callback of Phase 3 and the callbacks it schedules print.
FileOrder ==
    << "| File I/O Callback:", "> NextTick after I/O", "- Promise after I/O",
       "+ Immediate after I/O", "* Timer after I/O" >>

\* C27: for callbacks scheduled from inside a timer callback or from
\* inside a file I/O callback the order is: the rest of the synchronous
\* code, the process.nextTick callback, the promise callback, the
\* setImmediate callback, and only then the setTimeout(0) callback.
C27_NestedOrder ==
    /\ IsPrefix(Lines(Range(Phase2Order)), Phase2Order)
    /\ IsPrefix(Lines(Range(FileOrder)), FileOrder)

C27_Witness ==
    /\ el.prog = "deepDive"
    /\ Lines(Range(Phase2Order)) = Phase2Order
    /\ Lines(Range(FileOrder)) = FileOrder

\* C31: an add() call on an idle queue invokes the submitted task within
\* the call, hence before any later add() call; an add() call on a draining
\* queue never invokes the submitted task within that call.
C31_IdleAddInvokesAtOnce ==
    [][AddStep =>
          LET k == Len(submitted')
          IN  /\ ~isRunning => /\ order' # order
                               /\ order'[Len(order) + 1] = <<"start", k>>
                               /\ taskState'[k] # "queued"
              /\ isRunning => /\ order' = order
                              /\ taskState'[k] = "queued"
                              /\ tasks'[Len(tasks')] = k]_vars

C31_Witness ==
    /\ Len(submitted) = 3
    /\ order = << <<"start", 1>> >>
    /\ taskState[1] = "running"
    /\ tasks = <<2, 3>>
    /\ startedAtAdd = <<0, 1, 1>>

\* C33: the back-off wait after the failed attempt number k (k < maxRetries)
\* is 2^k * 100 ms, 200 ms after the first failure and 400 ms after the
\* second, and the next attempt is not started before the wait has elapsed.
C33_BackoffDoubles ==
    /\ \A k \in 1..Len(rt.waits) :
           /\ k < rt.maxRetries
           /\ rt.waits[k] = (2 ^ k) * 100
           /\ k = 1 => rt.waits[k] = 200
           /\ k = 2 => rt.waits[k] = 400
    /\ rt.pc = "backoff" =>
           /\ rt.opCalls = rt.attempt
           /\ rt.inFlight = 0
           /\ Len(rt.waits) = rt.attempt
    /\ rt.pc = "awaitOp" => Len(rt.waits) = rt.opCalls - 1

C33_Witness ==
    /\ rt.pc = "awaitOp"
    /\ rt.opCalls = 3
    /\ rt.waits = <<200, 400>>

\* C34: retryOperation called with maxRetries <= 0 never invokes operation
\* and resolves with undefined instead of rejecting.
C34_NoAttemptResolvesUndefined ==
    rt.maxRetries <= 0 =>
        /\ rt.opCalls = 0
        /\ rt.inFlight = 0
        /\ rt.pc \in {"call", "done"}
        /\ rt.pc = "done" =>
               rt.result = [status |-> "fulfilled", value |-> Val("undefined", 0)]

C34_Witness ==
    /\ rt.maxRetries = -1
    /\ rt.pc = "done"
    /\ rt.result.status = "fulfilled"
    /\ rt.opCalls = 0

\* C35: withTimeout cancels nothing: when the timer wins the operation
\* keeps running and its later result is discarded; when the operation wins
\* the timer still fires later and its rejection is discarded; neither late
\* event changes the settled result.
C35_NothingCancelled ==
    /\ [](Len(wt.events) = 1 =>
              /\ wt.events[1] = "timer" => (wt.opPending /\ ~wt.timerPending)
              /\ wt.events[1] = "promise" => (wt.timerPending /\ ~wt.opPending))
    /\ [](Len(wt.events) = 2 =>
              /\ wt.events[1] # wt.events[2]
              /\ Len(wt.raceCalls) = 2
              /\ RaceState(wt.raceCalls) = RaceState(<<wt.raceCalls[1]>>))
    /\ [][Len(wt.events) = 1 =>
              /\ Len(wt.events') = 2
              /\ RaceState(wt.raceCalls') = RaceState(wt.raceCalls)]_vars

C35_Witness ==
    /\ wt.duration = 2000
    /\ wt.timeoutMs = 3000
    /\ wt.events = <<"promise", "timer">>
    /\ wt.raceCalls[2] = <<"reject", TimeoutError(3000)>>
    /\ RaceState(wt.raceCalls)[1] = "fulfilled"

\* C36: in runExamples the un-awaited callbackHellExample chain has
\* completed before cleanAsyncExample starts reading and writing the same
\* temp files, for every duration of the file operations: the two chains
\* never interleave on temp1.txt or temp2.txt.
C36_ChainsDoNotOverlap ==
    fc.clean.started # <<>> => ChainOver(fc.hell)

\* What chain c has done is right for a chain of the given steps.
ChainInOrder(c, steps) ==
    /\ IsPrefix(c.started, steps)
    /\ Len(c.started) <= c.succeeded + 1
    /\ c.inFlight => (Len(c.started) = c.succeeded + 1 /\ c.failed = 0)
    /\ c.failed # 0 =>
           /\ c.failed = c.failAt
           /\ Len(c.started) = c.failed
           /\ c.succeeded = c.failed - 1
           /\ c.reports = 1
           /\ ~c.completed
           /\ ~c.inFlight
    /\ c.failed = 0 => c.reports = 0
    /\ c.completed <=> (c.succeeded = Len(steps) /\ ~c.inFlight)

\* C37: callbackHellExample and cleanAsyncExample perform the same four
\* file operations in the same strict order (read input.txt, write
\* temp1.txt, read temp1.txt, write temp2.txt), each step starting only
\* after the previous one succeeded; when step k fails both report the
\* error, perform none of the later steps and do not print their
\* completion message.
C37_SameChain ==
    /\ ChainInOrder(fc.hell, HellSteps)
    /\ ChainInOrder(fc.clean, CleanSteps)
    /\ HellSteps = CleanSteps
    /\ (ChainOver(fc.hell) /\ ChainOver(fc.clean) /\ fc.hell.failAt = fc.clean.failAt) =>
           /\ fc.hell.started = fc.clean.started
           /\ fc.hell.reports = fc.clean.reports
           /\ fc.hell.completed = fc.clean.completed

C37_Witness ==
    /\ fc.pc = "after"
    /\ fc.hell.failAt = 3
    /\ fc.clean.failAt = 3
    /\ ChainOver(fc.hell)
    /\ fc.hell.reports = 1
    /\ fc.clean.reports = 1
    /\ Len(fc.clean.started) = 3

\* C32: the AsyncTaskQueue copy of tests/test.js and the AsyncTaskQueue of
\* lab3.js, driven by the same add() calls and task completions, start the
\* same tasks in the same order, settle every returned promise with the
\* same outcome, and pass through the same (pending, isRunning) states.
C32_TestCopyEquivalent ==
    /\ other.started = tq.started
    /\ other.calls = tq.calls
    /\ other.order = tq.order
    /\ other.tasks = tq.tasks
    /\ other.isRunning = tq.isRunning
    /\ other.awaiting = tq.awaiting

C32_Witness ==
    /\ Len(tq.started) >= 3
    /\ SubSeq(tq.started, 1, 3) = <<1, 2, 3>>
    /\ ~tq.isRunning
    /\ \E k \in PairIds : tq.calls[k] # <<>> /\ tq.calls[k][1][1] = "reject"
    /\ \E k \in PairIds : tq.calls[k] # <<>> /\ tq.calls[k][1][1] = "resolve"
    /\ tq.taskCount = 3
    /\ \E i \in 1..Len(other.log) : other.log[i][1] = "processing" /\ other.log[i][2] = 2

\* The items processed so far, in the order they were processed.
Processed == [i \in 1..Len(el.items) |-> el.items[i].item]

\* What processLargeDataset has done so far is right.
DatasetInOrder ==
    /\ Processed \o el.data = el.input
    /\ Lines({ItemLine(x) : x \in Range(el.input)}) = [i \in 1..Len(el.items) |-> ItemLine(el.input[i])]
    /\ \A i, j \in 1..Len(el.items) : i < j => el.items[i].turn < el.items[j].turn
    /\ \A i \in 2..Len(el.items) : el.items[i].phase = "check"
    /\ Len(el.called) <= 1
    /\ Len(Lines({"* All items processed without blocking!"})) <= Len(el.called)
    /\ el.called # <<>> =>
           /\ el.data = <<>>
           /\ Len(el.items) = Len(el.input)
           /\ \A i \in 1..Len(el.items) : el.items[i].turn < el.called[1].turn
           /\ el.input = <<>> <=> el.called[1].phase = "timers"
    /\ el.input = <<>> =>
           /\ "p6.next" \notin Range(el.imm) \cup Range(el.immNow)
           /\ (Printed("> Phase 6: Proper Non-Blocking Patterns") /\ el.run = <<>>) =>
                  Printed("* All items processed without blocking!")

\* C38: processLargeDataset(data, callback) processes every item of data
\* exactly once in list order, one item per setImmediate turn so that
\* other queued callbacks can run between items, and invokes callback
\* exactly once, after the last item has been processed; it terminates for
\* every finite list, calling callback immediately for an empty list.
C38_ProcessesEachItemOnce ==
    /\ []DatasetInOrder
    /\ <>(Len(el.called) = 1 /\ Printed("* All items processed without blocking!"))
    /\ <>(el.phase = "exit")

C38_Witness ==
    /\ Len(el.input) >= 3
    /\ Len(el.items) = Len(el.input)
    /\ Printed("* All items processed without blocking!")
    /\ \E i, j, k \in 1..Len(el.out) :
           /\ i < j
           /\ j < k
           /\ el.out[i] = ItemLine("Item 1")
           /\ el.out[j] = "> Phase 7: Event Loop Phases Summary"
           /\ el.out[k] = ItemLine("Item 3")

====
